---- MODULE Spec2Model ----
(***************************************************************************)
(* Model of tutorial/benchmark_in1kmop.py: the In1KMOPProblem adapter, the *)
(* settings resolver get_benchmark_settings, the three algorithm           *)
(* constructors and the __main__ driver that loops over problem ids 1..9   *)
(* and --runs repeats, and dumps experiment_stats to one file per pid.     *)
(***************************************************************************)
EXTENDS Integers, Sequences, FiniteSets, TLC

VARIABLES moea, runs, pc, pid, r, run_stats, benchmark, problem, settings,
          algorithm, res, heap, experiment_stats, files, err, log, x, out

vars == <<moea, runs, pc, pid, r, run_stats, benchmark, problem, settings,
          algorithm, res, heap, experiment_stats, files, err, log, x, out>>

(* ------------------------------ bounds --------------------------------- *)
\* largest value of --runs explored (argparse accepts any int; 0 and
\* negative values give the same empty range(1, runs+1))
MaxRuns == 2
\* objective counts a benchmark instance may report: 1..MaxNObj
MaxNObj == 5
\* adapter specification: dimensionality, upper bound and batch length
NVar == 2
Ub == 1
MaxBatch == 2

(* ------------------------- program constants --------------------------- *)
LastPid == 9
NGen == 100
Partitions2 == 99
Partitions3 == 13
Partitions4 == 7

Moeas == {"nsga2", "moead", "nsga3", "spea2"}
SupportedMoeas == {"nsga2", "moead", "nsga3"}
NObjs == 1..MaxNObj

None == <<>>
Some(v) == <<v>>
NoErr == [type |-> "none", line |-> 0]
NotImplementedError(l) == [type |-> "NotImplementedError", line |-> l]

(* ------------------- get_reference_directions -------------------------- *)
\* das-dennis lattice, coordinates kept as integer numerators over
\* n_partitions; enumerated in the order of the recursion (first coordinate
\* slowest, last coordinate = remaining beta).
RECURSIVE DasDennisRec(_, _, _), DasDennisLoop(_, _, _, _)
DasDennisRec(ref_dir, beta, n_dim) ==
    IF Len(ref_dir) = n_dim - 1
    THEN << Append(ref_dir, beta) >>
    ELSE DasDennisLoop(ref_dir, beta, n_dim, 0)

DasDennisLoop(ref_dir, beta, n_dim, i) ==
    IF i > beta
    THEN << >>
    ELSE DasDennisRec(Append(ref_dir, i), beta - i, n_dim)
         \o DasDennisLoop(ref_dir, beta, n_dim, i + 1)

get_reference_directions(n_dim, n_partitions) ==
    DasDennisRec(<< >>, n_partitions, n_dim)

(* ----------------------- get_benchmark_settings ------------------------ *)
\* outcome of a call: the value returned, or the exception raised
Return(v) == [raise |-> NoErr, value |-> Some(v)]
Raise(e) == [raise |-> e, value |-> None]

SettingsOf(n_partitions, ref_dirs) ==
    [pop_size |-> Len(ref_dirs), n_gen |-> NGen, ref_dirs |-> ref_dirs,
     n_partitions |-> n_partitions]

\* variant: the final else falls through to the 4-objective settings
get_benchmark_settings_no_raise(n_obj) ==
    IF n_obj = 2
    THEN Return(SettingsOf(Partitions2,
                           get_reference_directions(n_obj, Partitions2)))
    ELSE IF n_obj = 3
    THEN Return(SettingsOf(Partitions3,
                           get_reference_directions(n_obj, Partitions3)))
    ELSE Return(SettingsOf(Partitions4,
                           get_reference_directions(4, Partitions4)))

\* variant: 12 partitions instead of 13 for three objectives
get_benchmark_settings_12(n_obj) ==
    IF n_obj = 2
    THEN Return(SettingsOf(Partitions2,
                           get_reference_directions(n_obj, Partitions2)))
    ELSE IF n_obj = 3
    THEN Return(SettingsOf(Partitions3 - 1,
                           get_reference_directions(n_obj, Partitions3 - 1)))
    ELSE IF n_obj = 4
    THEN Return(SettingsOf(Partitions4,
                           get_reference_directions(n_obj, Partitions4)))
    ELSE Raise(NotImplementedError(59))

get_benchmark_settings(n_obj) ==
    IF n_obj = 2
    THEN Return(SettingsOf(Partitions2,
                           get_reference_directions(n_obj, Partitions2)))
    ELSE IF n_obj = 3
    THEN Return(SettingsOf(Partitions3,
                           get_reference_directions(n_obj, Partitions3)))
    ELSE IF n_obj = 4
    THEN Return(SettingsOf(Partitions4,
                           get_reference_directions(n_obj, Partitions4)))
    ELSE Raise(NotImplementedError(59))

(* ------------------------ algorithm constructors ----------------------- *)
\* probabilities in tenths
get_genetic_operator(crx_prob, crx_eta, mut_prob, mut_eta) ==
    [sampling |-> "IntegerRandomSampling",
     crossover |-> [op |-> "SBX", prob |-> crx_prob, eta |-> crx_eta,
                    repair |-> "RoundingRepair"],
     mutation |-> [op |-> "PM", prob |-> mut_prob, eta |-> mut_eta,
                   repair |-> "RoundingRepair"]]

nsga2(id, pop_size) ==
    [id |-> id, cls |-> "NSGA2", pop_size |-> pop_size, ref_dirs |-> << >>,
     operators |-> get_genetic_operator(10, 30, 9, 20),
     eliminate_duplicates |-> TRUE]

moead(id, ref_dirs) ==
    [id |-> id, cls |-> "MOEAD", pop_size |-> Len(ref_dirs),
     ref_dirs |-> ref_dirs,
     operators |-> get_genetic_operator(10, 20, 9, 20),
     eliminate_duplicates |-> FALSE]

nsga3(id, pop_size, ref_dirs) ==
    [id |-> id, cls |-> "NSGA3", pop_size |-> pop_size, ref_dirs |-> ref_dirs,
     operators |-> get_genetic_operator(10, 30, 9, 20),
     eliminate_duplicates |-> TRUE]

\* identity of the object a constructor call returns: one more than the
\* number of optimizer objects constructed so far
Built == SelectSeq(log, LAMBDA e : e.op = "build")
\* variant: the optimizer object built first is handed out again
ReusedAlgorithmId == IF Built = << >> THEN 1 ELSE Built[1].alg
NewAlgorithmId == Len(Built) + 1

(* ---------------------------- benchmark -------------------------------- *)
\* evoxbench.test_suites.in1kmop(pid): the benchmark object of a problem id
in1kmop(p, n_objs) ==
    [pid |-> p, n_objs |-> n_objs, n_var |-> NVar,
     lb |-> [i \in 1..NVar |-> 0], ub |-> [i \in 1..NVar |-> Ub]]

\* benchmark.evaluate(X, true_eval): objective matrix of X on this benchmark
benchmark_evaluate(b, X, true_eval) ==
    [type |-> "ndarray",
     data |-> [pid |-> b.pid, X |-> X, true_eval |-> true_eval]]

\* benchmark.calc_perf_indicator(X, 'hv')
calc_perf_indicator(b, X, ind) ==
    [type |-> "float", data |-> [pid |-> b.pid, X |-> X, indicator |-> ind]]

(* --------------------------- In1KMOPProblem ---------------------------- *)
In1KMOPProblem(b) ==
    [n_var |-> b.n_var, n_obj |-> b.n_objs, n_constr |-> 0,
     xl |-> b.lb, xu |-> b.ub, benchmark |-> b]

\* In1KMOPProblem._evaluate(x, out): the out dict after the call
In1KMOPProblem_evaluate(self, xx) ==
    [F |-> benchmark_evaluate(self.benchmark, xx, TRUE)]

(* ----------------------------- json.dump ------------------------------- *)
NumpyEncoder_default(obj) ==
    IF obj.type = "ndarray" THEN [list |-> obj.data] ELSE [list |-> "TypeError"]

JsonValue(obj) ==
    IF obj.type = "float" THEN [number |-> obj.data] ELSE NumpyEncoder_default(obj)

json_dump(stats) ==
    [i \in 1..Len(stats) |->
        [run |-> stats[i].run, F |-> JsonValue(stats[i].F),
         HV |-> JsonValue(stats[i].HV)]]

\* variant: the problem id is left out of the name
FileNameNoPid(p, m) == "in1kmop" \o "_" \o m \o ".json"
FileName(p, m) == "in1kmop" \o ToString(p) \o "_" \o m \o ".json"

\* one entry of the trace of collaborator calls made so far
Event(op, alg, n_gen, flag) ==
    [op |-> op, pid |-> pid, r |-> r, alg |-> alg, n_gen |-> n_gen,
     true_eval |-> flag]

(* ------------------------------ driver --------------------------------- *)
Init ==
    /\ moea \in Moeas
    /\ runs \in 0..MaxRuns
    /\ pc = "for_pid"
    /\ pid = 0
    /\ r = 0
    /\ run_stats = None
    /\ benchmark = None
    /\ problem = None
    /\ settings = None
    /\ algorithm = None
    /\ res = None
    /\ heap = << << >> >>
    /\ experiment_stats = 1
    /\ files = << >>
    /\ err = NoErr
    /\ log = << >>
    /\ x = None
    /\ out = None

\* line 124: for pid in range(1, 10)
ForPid ==
    /\ pc = "for_pid"
    /\ IF pid + 1 <= LastPid
       THEN /\ pid' = pid + 1
            /\ r' = 0
            /\ pc' = "for_run"
       ELSE /\ pc' = "done"
            /\ UNCHANGED <<pid, r>>
    /\ UNCHANGED <<moea, runs, run_stats, benchmark, problem, settings,
                   algorithm, res, heap, experiment_stats, files, err, log,
                   x, out>>

\* lines 125-126: for r in range(1, args.runs+1): run_stats = {'run': r}
ForRun ==
    /\ pc = "for_run"
    /\ IF r + 1 <= runs
       THEN /\ r' = r + 1
            /\ run_stats' = Some([run |-> r + 1])
            /\ pc' = "instantiate"
       ELSE /\ pc' = "dump"
            /\ UNCHANGED <<r, run_stats>>
    /\ UNCHANGED <<moea, runs, pid, benchmark, problem, settings, algorithm,
                   res, heap, experiment_stats, files, err, log, x, out>>

\* variant: the benchmark is instantiated for the first run of a pid only
InstantiateFirstRunOnly ==
    /\ pc = "instantiate"
    /\ IF r = 1
       THEN /\ \E n \in NObjs :
                  /\ benchmark' = Some(in1kmop(pid, n))
                  /\ problem' = Some(In1KMOPProblem(in1kmop(pid, n)))
            /\ log' = Append(log, Event("in1kmop", 0, 0, FALSE))
       ELSE UNCHANGED <<benchmark, problem, log>>
    /\ pc' = "resolve"
    /\ UNCHANGED <<moea, runs, pid, r, run_stats, settings, algorithm, res,
                   heap, experiment_stats, files, err, x, out>>

\* lines 128-129: benchmark = in1kmop(pid); problem = In1KMOPProblem(benchmark)
\* The objective count of a problem id is a property of the benchmark suite:
\* unknown here, but the same each time the same pid is instantiated.
Instantiate ==
    /\ pc = "instantiate"
    /\ \E n \in NObjs :
          /\ (benchmark # None /\ benchmark[1].pid = pid)
                => n = benchmark[1].n_objs
          /\ benchmark' = Some(in1kmop(pid, n))
          /\ problem' = Some(In1KMOPProblem(in1kmop(pid, n)))
    /\ log' = Append(log, Event("in1kmop", 0, 0, FALSE))
    /\ pc' = "resolve"
    /\ UNCHANGED <<moea, runs, pid, r, run_stats, settings, algorithm, res,
                   heap, experiment_stats, files, err, x, out>>

\* line 131: pop_size, n_gen, ref_dirs = get_benchmark_settings(problem.n_obj)
Resolve ==
    /\ pc = "resolve"
    /\ LET call == get_benchmark_settings(problem[1].n_obj)
       IN  IF call.raise # NoErr
           THEN /\ err' = call.raise
                /\ pc' = "raised"
                /\ UNCHANGED settings
           ELSE /\ settings' = call.value
                /\ pc' = "build"
                /\ UNCHANGED err
    /\ log' = Append(log, Event("get_benchmark_settings", 0, 0, FALSE))
    /\ UNCHANGED <<moea, runs, pid, r, run_stats, benchmark, problem,
                   algorithm, res, heap, experiment_stats, files, x, out>>

\* lines 134-141: dispatch on args.moea
BuildAlgorithm(m, id, s) ==
    IF m = "nsga2" THEN Return(nsga2(id, s.pop_size))
    ELSE IF m = "moead" THEN Return(moead(id, s.ref_dirs))
    ELSE IF m = "nsga3" THEN Return(nsga3(id, s.pop_size, s.ref_dirs))
    ELSE Raise(NotImplementedError(141))

Build ==
    /\ pc = "build"
    /\ LET call == BuildAlgorithm(moea, NewAlgorithmId, settings[1])
       IN  IF call.raise # NoErr
           THEN /\ err' = call.raise
                /\ pc' = "raised"
                /\ UNCHANGED <<algorithm, log>>
           ELSE /\ algorithm' = call.value
                /\ pc' = "minimize"
                /\ log' = Append(log, Event("build", call.value[1].id, 0, FALSE))
                /\ UNCHANGED err
    /\ UNCHANGED <<moea, runs, pid, r, run_stats, benchmark, problem,
                   settings, res, heap, experiment_stats, files, x, out>>

\* the candidate set optimizer `alg` holds after generation `gen`
Population(alg, gen) == [alg |-> alg.id, gen |-> gen]

\* line 143: res = minimize(problem, algorithm, ('n_gen', n_gen)).  The engine
\* evaluates its populations through problem._evaluate and returns the final
\* candidate set as res.X.
Minimize ==
    /\ pc = "minimize"
    /\ LET n_gen == settings[1].n_gen
           pop == Population(algorithm[1], 0)
           o == In1KMOPProblem_evaluate(problem[1], pop)
       IN  /\ x' = Some(pop)
           /\ out' = Some(o)
           /\ res' = Some([X |-> Population(algorithm[1], n_gen)])
           /\ log' = log \o << Event("minimize", algorithm[1].id, n_gen, FALSE),
                                Event("evaluate", algorithm[1].id, 0,
                                      o.F.data.true_eval) >>
    /\ pc' = "evaluate"
    /\ UNCHANGED <<moea, runs, pid, r, run_stats, benchmark, problem,
                   settings, algorithm, heap, experiment_stats, files, err>>

\* lines 145-146: F = benchmark.evaluate(res.X, true_eval=True)
\* variant: the surrogate path is used for the reported matrix
FinalEvaluationSurrogate(b, rs) == benchmark_evaluate(b, rs.X, FALSE)
FinalEvaluation(b, rs) == benchmark_evaluate(b, rs.X, TRUE)

Evaluate ==
    /\ pc = "evaluate"
    /\ LET F == FinalEvaluation(benchmark[1], res[1])
       IN  /\ run_stats' = Some([run |-> run_stats[1].run, F |-> F])
           /\ log' = Append(log, Event("evaluate", res[1].X.alg, 0,
                                       F.data.true_eval))
    /\ pc' = "hv"
    /\ UNCHANGED <<moea, runs, pid, r, benchmark, problem, settings,
                   algorithm, res, heap, experiment_stats, files, err, x, out>>

\* lines 148-150: hv = benchmark.calc_perf_indicator(res.X, 'hv');
\* experiment_stats.append(run_stats)
Indicator(b, rs) == calc_perf_indicator(b, rs.X, "hv")

HV ==
    /\ pc = "hv"
    /\ LET hv == Indicator(benchmark[1], res[1])
           done == [run |-> run_stats[1].run, F |-> run_stats[1].F, HV |-> hv]
       IN  /\ run_stats' = Some(done)
           /\ heap' = [heap EXCEPT ![experiment_stats] = Append(@, done)]
    /\ log' = Append(log, Event("calc_perf_indicator", res[1].X.alg, 0, FALSE))
    /\ pc' = "for_run"
    /\ UNCHANGED <<moea, runs, pid, r, benchmark, problem, settings,
                   algorithm, res, experiment_stats, files, err, x, out>>

\* lines 164-165: json.dump(experiment_stats, fp) into in1kmop{pid}_{moea}.json
Dump ==
    /\ pc = "dump"
    /\ files' = (FileName(pid, moea) :> json_dump(heap[experiment_stats]))
                  @@ files
    /\ log' = Append(log, Event("dump", experiment_stats, 0, FALSE))
    /\ pc' = "for_pid"
    /\ UNCHANGED <<moea, runs, pid, r, run_stats, benchmark, problem,
                   settings, algorithm, res, heap, experiment_stats, err,
                   x, out>>

Next ==
    \/ ForPid
    \/ ForRun
    \/ Instantiate
    \/ Resolve
    \/ Build
    \/ Minimize
    \/ Evaluate
    \/ HV
    \/ Dump


Spec == Init /\ [][Next]_vars

(* ---------------- the adapter called on an arbitrary batch -------------- *)
Candidates ==
    UNION { [1..n -> 0..(Ub + 1)] : n \in {NVar - 1, NVar} }
Batches ==
    UNION { [1..n -> Candidates] : n \in 0..MaxBatch }

InitAdapter ==
    /\ moea = "nsga2"
    /\ runs = 1
    /\ pc = "adapter_call"
    /\ pid = 1
    /\ r = 1
    /\ run_stats = None
    /\ benchmark = Some(in1kmop(1, 2))
    /\ problem = Some(In1KMOPProblem(in1kmop(1, 2)))
    /\ settings = None
    /\ algorithm = None
    /\ res = None
    /\ heap = << << >> >>
    /\ experiment_stats = 1
    /\ files = << >>
    /\ err = NoErr
    /\ log = << >>
    /\ x \in { Some(b) : b \in Batches }
    /\ out = None

\* lines 30-34: problem._evaluate(x, out)
AdapterEvaluate ==
    /\ pc = "adapter_call"
    /\ LET o == In1KMOPProblem_evaluate(problem[1], x[1])
       IN  /\ out' = Some(o)
           /\ log' = Append(log, Event("evaluate", 0, 0, o.F.data.true_eval))
    /\ pc' = "adapter_return"
    /\ UNCHANGED <<moea, runs, pid, r, run_stats, benchmark, problem,
                   settings, algorithm, res, heap, experiment_stats, files,
                   err, x>>

NextAdapter == AdapterEvaluate

SpecAdapter == InitAdapter /\ [][NextAdapter]_vars

(* ------------------------------ helpers -------------------------------- *)
Ops(o) == SelectSeq(log, LAMBDA e : e.op = o)
OpsOf(o, p) == SelectSeq(log, LAMBDA e : e.op = o /\ e.pid = p)
OpsAt(o, p, rr) == SelectSeq(log, LAMBDA e : e.op = o /\ e.pid = p /\ e.r = rr)
Stats == heap[experiment_stats]
Written(p) == FileName(p, moea) \in DOMAIN files
Supported == moea \in SupportedMoeas

RECURSIVE Binomial(_, _)
Binomial(n, k) ==
    IF k = 0 THEN 1
    ELSE IF n = 0 THEN 0
    ELSE (n * Binomial(n - 1, k - 1)) \div k

RECURSIVE SumSeq(_)
SumSeq(q) == IF q = << >> THEN 0 ELSE Head(q) + SumSeq(Tail(q))

Lattice(m, n_partitions) ==
    { d \in [1..m -> 0..n_partitions] : SumSeq(d) = n_partitions }

ValidCandidate(self, c) ==
    /\ Len(c) = self.n_var
    /\ \A i \in 1..Len(c) : self.xl[i] <= c[i] /\ c[i] <= self.xu[i]

ProjectLog == [i \in 1..Len(log) |-> <<log[i].op, log[i].pid, log[i].r>>]

RunOps == <<"in1kmop", "get_benchmark_settings", "build", "minimize",
            "evaluate", "evaluate", "calc_perf_indicator">>
ExpectedRun(p, rr) == [i \in 1..Len(RunOps) |-> <<RunOps[i], p, rr>>]

RECURSIVE ExpectedRuns(_, _)
ExpectedRuns(p, rr) ==
    IF rr > runs THEN << >>
    ELSE ExpectedRun(p, rr) \o ExpectedRuns(p, rr + 1)

RECURSIVE ExpectedFrom(_)
ExpectedFrom(p) ==
    IF p > LastPid THEN << >>
    ELSE ExpectedRuns(p, 1) \o << <<"dump", p, runs>> >> \o ExpectedFrom(p + 1)

IsPrefix(a, b) == Len(a) <= Len(b) /\ a = SubSeq(b, 1, Len(a))

(* ------------------------------ claims --------------------------------- *)

\* C1: for every problem id p and every runs >= 1, the file dumped for p
\* holds exactly `runs` records, with run indices 1..runs in order, each
\* produced on problem id p.
C1_ReportPerProblem ==
    \A p \in 1..LastPid :
        (runs >= 1 /\ Written(p)) =>
            LET rep == files[FileName(p, moea)]
            IN  /\ Len(rep) = runs
                /\ \A i \in 1..Len(rep) :
                       rep[i].run = i /\ rep[i].F.list.pid = p

\* C2: once a report has been dumped, the list object that was handed to
\* json.dump is never changed by a later step.
C2_HandedOffNeverMutated ==
    [][\A i \in 1..Len(log) :
          log[i].op = "dump" => heap'[log[i].alg] = heap[log[i].alg]]_vars

\* C3: with an unsupported --moea the invocation fails and aborts entirely:
\* it never completes, no optimizer is constructed or run, nothing is
\* evaluated and no report file is written.
C3_UnsupportedAlgorithmAborts ==
    ~Supported =>
        /\ pc # "done"
        /\ files = << >>
        /\ \A i \in 1..Len(log) :
               log[i].op \notin {"build", "minimize", "evaluate", "dump"}
        /\ (pc = "raised" => err.type = "NotImplementedError")

\* C4: when settings resolution meets an objective count outside {2,3,4} it
\* raises before any optimizer is constructed for that problem id, nothing
\* is run, evaluated or written for that problem id, and the failing step
\* leaves the files of earlier problem ids as they were.
C4_State ==
    (/\ problem # None
     /\ problem[1].benchmark.pid = pid
     /\ problem[1].n_obj \notin {2, 3, 4}
     /\ pc # "resolve") =>
        /\ pc = "raised"
        /\ err = NotImplementedError(59)
        /\ OpsOf("build", pid) = << >>
        /\ OpsOf("minimize", pid) = << >>
        /\ OpsOf("evaluate", pid) = << >>
        /\ ~Written(pid)
        /\ DOMAIN files = { FileName(q, moea) : q \in 1..(pid - 1) }

C5_AdapterRejectsInvalid ==
    (/\ pc = "adapter_return"
     /\ \E i \in 1..Len(x[1]) : ~ValidCandidate(problem[1], x[1][i])) =>
        /\ err.type = "InvalidCandidate"
        /\ out = None
        /\ Ops("evaluate") = << >>

\* C6: the settings resolved for objective count m in {2,3,4} have n_gen 100,
\* the das-dennis lattice for 99, 13 and 7 partitions (every point summing to
\* the partition count, each lattice point listed once), and a population
\* size equal to the number of directions: C(p+m-1, m-1) = 100, 105 and 120;
\* a second call for the same objective count returns what the first did.
C6_State ==
    pc \in {"build", "minimize", "evaluate", "hv"} =>
        LET m == problem[1].n_obj
            s == settings[1]
            np == IF m = 2 THEN 99 ELSE IF m = 3 THEN 13 ELSE 7
            size == IF m = 2 THEN 100 ELSE IF m = 3 THEN 105 ELSE 120
        IN  /\ m \in {2, 3, 4}
            /\ s.n_gen = 100
            /\ s.n_partitions = np
            /\ s.pop_size = Len(s.ref_dirs)
            /\ s.pop_size = size
            /\ s.pop_size = Binomial(np + m - 1, m - 1)
            /\ \A i \in 1..Len(s.ref_dirs) :
                   /\ Len(s.ref_dirs[i]) = m
                   /\ SumSeq(s.ref_dirs[i]) = np
            /\ { s.ref_dirs[i] : i \in 1..Len(s.ref_dirs) } = Lattice(m, np)
            /\ Cardinality(Lattice(m, np)) = s.pop_size

\* C6: the resolved settings are always the table above, and the second
\* resolution for a problem id returns the settings of the first.
C6_SettingsDeterministic ==
    /\ []C6_State
    /\ [][(pc = "resolve" /\ pc' = "build" /\ r >= 2)
             => settings' = settings]_vars

C6_Witness ==
    /\ pc = "build"
    /\ problem[1].n_obj = 4
    /\ r >= 2
    /\ settings[1].pop_size = 120

\* C7: with a supported family, runs >= 1 and no error, the calls happen one
\* run at a time in the order (pid 1, run 1..runs), dump 1, (pid 2, ...), ...,
\* dump 9; each file is written once, after the last run of its pid and
\* before the first of the next; on termination exactly the 9 files named by
\* (pid, family) exist.
C7_SequentialOrder ==
    (Supported /\ runs >= 1 /\ err = NoErr) =>
        /\ IsPrefix(ProjectLog, ExpectedFrom(1))
        /\ DOMAIN files = { FileName(log[i].pid, moea) :
                              i \in { j \in 1..Len(log) : log[j].op = "dump" } }
        /\ Cardinality(DOMAIN files) = Len(Ops("dump"))
        /\ (pc = "done" =>
              /\ ProjectLog = ExpectedFrom(1)
              /\ DOMAIN files = { FileName(p, moea) : p \in 1..LastPid }
              /\ Cardinality(DOMAIN files) = 9)

C7_Witness ==
    /\ pc = "done"
    /\ Supported
    /\ runs >= 2
    /\ err = NoErr

\* C8: every (pid, run) constructs at most one optimizer, a new object each
\* time, and executes it at most once with n_gen = 100; no optimizer is
\* used by two runs, no run is executed twice, and every completed run has
\* exactly one construction and one execution.
C8_FreshOptimizerPerRun ==
    /\ \A i, j \in 1..Len(log) :
          (i # j /\ log[i].op = log[j].op
             /\ log[i].op \in {"build", "minimize"}) =>
              /\ log[i].alg # log[j].alg
              /\ <<log[i].pid, log[i].r>> # <<log[j].pid, log[j].r>>
    /\ \A i \in 1..Len(log) :
          log[i].op = "minimize" =>
              /\ log[i].n_gen = 100
              /\ \E j \in 1..(i - 1) :
                    /\ log[j].op = "build"
                    /\ log[j].alg = log[i].alg
                    /\ log[j].pid = log[i].pid
                    /\ log[j].r = log[i].r
    /\ Len(Ops("minimize")) <= Len(Ops("build"))
    /\ Len(Ops("build")) <= Len(Ops("minimize")) + 1
    /\ Len(Stats) <= Len(Ops("minimize"))
    /\ (pc = "done" /\ Supported) =>
          \A p \in 1..LastPid : \A rr \in 1..runs :
              Len(OpsAt("build", p, rr)) = 1 /\ Len(OpsAt("minimize", p, rr)) = 1

C8_Witness ==
    /\ pc = "done"
    /\ Supported
    /\ runs >= 2
    /\ Len(Ops("minimize")) = LastPid * runs

\* C9: the F of every RunResult is benchmark.evaluate(res.X, true_eval=True)
\* of the final candidate set of that run's own optimizer, on that run's
\* benchmark, made after the optimizer finished; HV is computed on the same
\* candidate set; no evaluation is ever made with true_eval false.
C9_AuthoritativeFinalEvaluation ==
    /\ \A i \in 1..Len(log) : log[i].op = "evaluate" => log[i].true_eval
    /\ Len(Stats) <= Len(Ops("minimize"))
    /\ \A i \in 1..Len(Stats) :
          LET run == Ops("minimize")[i]
          IN  /\ Stats[i].F.type = "ndarray"
              /\ Stats[i].F.data.true_eval
              /\ Stats[i].F.data.X = [alg |-> run.alg, gen |-> run.n_gen]
              /\ Stats[i].F.data.pid = run.pid
              /\ Stats[i].run = run.r
              /\ Stats[i].HV.data.X = Stats[i].F.data.X
              /\ Stats[i].HV.data.pid = run.pid
    /\ pc = "hv" =>
          LET run == Ops("minimize")[Len(Ops("minimize"))]
          IN  /\ run_stats[1].F.data.true_eval
              /\ run_stats[1].F.data.X = [alg |-> run.alg, gen |-> run.n_gen]
              /\ run_stats[1].F.data.X = res[1].X
              /\ log[Len(log)].op = "evaluate"
              /\ log[Len(log) - 2].op = "minimize"

C9_Witness ==
    /\ pid >= 2
    /\ Len(Stats) >= 3
    /\ Stats[Len(Stats)].F.data.pid = pid

\* C10 (as stated): the benchmark of a problem id is instantiated once and
\* its settings resolved once, whatever `runs` is, so a complete invocation
\* makes 9 instantiations.
C10_InstantiatedOncePerProblem ==
    /\ \A p \in 1..LastPid :
          /\ Len(OpsOf("in1kmop", p)) <= 1
          /\ Len(OpsOf("get_benchmark_settings", p)) <= 1
    /\ (pc = "done" /\ Supported /\ runs >= 1) => Len(Ops("in1kmop")) = 9

\* C10 (amended): the benchmark and its adapter are instantiated once per
\* (pid, run), at the start of that run, and settings are resolved once per
\* run; a complete invocation makes 9 * runs instantiations.
C10_InstantiatedOncePerRun ==
    /\ \A p \in 1..LastPid : \A rr \in 1..runs :
          /\ Len(OpsAt("in1kmop", p, rr)) <= 1
          /\ Len(OpsAt("get_benchmark_settings", p, rr)) <= 1
          /\ Len(OpsAt("get_benchmark_settings", p, rr))
                <= Len(OpsAt("in1kmop", p, rr))
          /\ Len(OpsAt("build", p, rr)) <= Len(OpsAt("in1kmop", p, rr))
          /\ (p < pid \/ (p = pid /\ rr < r) \/ pc = "done") =>
                Len(OpsAt("in1kmop", p, rr)) = 1
    /\ (pc = "done" /\ Supported) =>
          /\ Len(Ops("in1kmop")) = LastPid * runs
          /\ Len(Ops("get_benchmark_settings")) = LastPid * runs

C10_Witness ==
    /\ pc = "done"
    /\ Supported
    /\ runs >= 2
    /\ Len(Ops("in1kmop")) = LastPid * runs
====
